---- MODULE Spec2Model ----
(***************************************************************************)
(* Driven damped pendulum: fixed-step RK4 integration (solve) and the      *)
(* Poincare samplers (poincare, sample_poincare_from_trajectory,           *)
(* poincare_via_solve) of src/src/solve_equation.rs.                       *)
(*                                                                         *)
(* Numbers.  Every f64 of the program is a fixed-point number here: the    *)
(* integer X stands for the real X / SCALE.  Addition and subtraction are  *)
(* exact; a product or a quotient is computed exactly and then rounded     *)
(* down to the grid (Mul, Div).  std::f64::consts::PI is the grid value    *)
(* PI, and sin is a rational approximation that is odd and periodic with   *)
(* period 2*PI.  Rounding of f64 additions is therefore not represented.   *)
(*                                                                         *)
(* Indices.  A Rust Vec index i is the sequence index i + 1 here, and      *)
(* Option<usize> None is the index 0.                                      *)
(***************************************************************************)
EXTENDS Integers, Sequences, FiniteSets

VARIABLES
    pc,                 \* position of the program
    params,             \* PendulumParams (the fields the core reads)
    initial_theta,      \* argument of solve / poincare
    initial_omega,      \* argument of solve / poincare
    transient_periods,  \* argument of the samplers
    sample_periods,     \* argument of the samplers
    state,              \* solve: local `state`
    t,                  \* solve: local `t`
    step,               \* solve: number of loop iterations done
    traj,               \* solve: `trajectory`; the samplers' `traj`
    n,                  \* sample_poincare_from_trajectory: loop variable
    samples,            \* sample_poincare_from_trajectory: `samples`
    log,                \* history: for each pushed sample, its n, target time, index
    nP,                 \* poincare: loop variable
    samplesP,           \* poincare: `samples`
    arg,                \* wrap_angle: argument theta and the integer k
    ret                 \* wrap_angle: results for theta and theta + 2*pi*k

vars == <<pc, params, initial_theta, initial_omega, transient_periods,
          sample_periods, state, t, step, traj, n, samples, log, nP,
          samplesP, arg, ret>>

(***************************************************************************)
(* Bounds of the model.                                                    *)
(***************************************************************************)
SCALE == 16          \* grid units per 1.0
MaxLen == 2          \* longest hand-made trajectory given to the sampler
MaxTransient == 1    \* largest transient_periods
MaxSample == 2       \* largest sample_periods
MaxK == 2            \* largest |k| in wrap_angle(theta + 2*pi*k)

(***************************************************************************)
(* Fixed-point arithmetic.                                                 *)
(***************************************************************************)
Real(num, den) == (num * SCALE) \div den       \* the literal num/den
Mul(a, b) == (a * b) \div SCALE                \* a * b
Div(a, b) == (a * SCALE) \div b                \* a / b
AsF64(k) == k * SCALE                          \* k as f64
AsUsize(x) == IF x < 0 THEN 0 ELSE x \div SCALE \* x as usize (saturating)

PI == (355 * SCALE) \div 113

\* f64::rem_euclid for a positive modulus: the remainder in [0, b)
RemEuclid(a, b) == a % b

\* f64::sin: Bhaskara's rational approximation on [0, PI], extended as an
\* odd function of period 2*PI.
SinHalf(x) == (16 * x * (PI - x) * SCALE) \div (5 * PI * PI - 4 * x * (PI - x))
Sin(x) ==
    LET r == RemEuclid(x, 2 * PI)
    IN  IF r <= PI THEN SinHalf(r) ELSE -SinHalf(r - PI)

(***************************************************************************)
(* rhs, rk4_step                                                           *)
(***************************************************************************)
rhs(theta, omega, tt, p) ==
    LET d_theta_dt == omega
        d_omega_dt == Mul(-Div(p.g, p.l), Sin(theta))
                      - Mul(p.q, d_theta_dt)
                      + Mul(p.f_d, Sin(Mul(p.omega_d, tt)))
    IN  <<d_theta_dt, d_omega_dt>>

rk4_state(s, tt, p) ==
    LET half == Real(1, 2)
        k1 == rhs(s.theta, s.omega, tt, p)
        m1 == [theta |-> s.theta + Mul(Mul(half, p.dt), k1[1]),
               omega |-> s.omega + Mul(Mul(half, p.dt), k1[2])]
        k2 == rhs(m1.theta, m1.omega, tt + Mul(half, p.dt), p)
        m2 == [theta |-> s.theta + Mul(Mul(half, p.dt), k2[1]),
               omega |-> s.omega + Mul(Mul(half, p.dt), k2[2])]
        k3 == rhs(m2.theta, m2.omega, tt + Mul(half, p.dt), p)
        m3 == [theta |-> s.theta + Mul(p.dt, k3[1]),
               omega |-> s.omega + Mul(p.dt, k3[2])]
        k4 == rhs(m3.theta, m3.omega, tt + p.dt, p)
        sixth == Div(p.dt, AsF64(6))
        two == AsF64(2)
    IN  [theta |-> s.theta
                   + Mul(sixth, k1[1] + Mul(two, k2[1]) + Mul(two, k3[1]) + k4[1]),
         omega |-> s.omega
                   + Mul(sixth, k1[2] + Mul(two, k2[2]) + Mul(two, k3[2]) + k4[2])]

rk4_step_stale(s, tt, p) == [state |-> rk4_state(s, tt, p), t |-> tt]

rk4_step(s, tt, p) == [state |-> rk4_state(s, tt, p), t |-> tt + p.dt]

(***************************************************************************)
(* wrap_angle                                                              *)
(***************************************************************************)
\* the same with Rust's truncating % in place of rem_euclid
RemTrunc(a, b) == IF a >= 0 THEN a % b ELSE -((-a) % b)
wrap_angle_trunc(theta) == RemTrunc(theta + PI, Mul(AsF64(2), PI)) - PI

\* the same without the final shift back by PI
wrap_angle_unshifted(theta) == RemEuclid(theta + PI, Mul(AsF64(2), PI))

wrap_angle(theta) == RemEuclid(theta + PI, Mul(AsF64(2), PI)) - PI

(***************************************************************************)
(* solve                                                                   *)
(***************************************************************************)
Point(tt, s) == [t |-> tt, theta |-> s.theta, omega |-> s.omega]

\* let steps = (params.t_end / params.dt) as usize
Steps(p) == AsUsize(Div(p.t_end, p.dt))

\* the naive stopping test `while t < t_end`
SolveLoopCondNaive == t < params.t_end

\* for _ in 0..steps
SolveLoopCond == step < Steps(params)

SolveBegin ==
    /\ pc = "start"
    /\ state' = [theta |-> initial_theta, omega |-> initial_omega]
    /\ t' = 0
    /\ traj' = <<Point(0, [theta |-> initial_theta, omega |-> initial_omega])>>
    /\ step' = 0
    /\ pc' = "solve"
    /\ UNCHANGED <<params, initial_theta, initial_omega, transient_periods,
                   sample_periods, n, samples, log, nP, samplesP, arg, ret>>

SolveStep ==
    /\ pc = "solve"
    /\ SolveLoopCond
    /\ LET r == rk4_step(state, t, params)
       IN  /\ state' = r.state
           /\ t' = r.t
           /\ traj' = Append(traj, Point(r.t, r.state))
    /\ step' = step + 1
    /\ UNCHANGED <<pc, params, initial_theta, initial_omega, transient_periods,
                   sample_periods, n, samples, log, nP, samplesP, arg, ret>>

(***************************************************************************)
(* sample_poincare_from_trajectory                                         *)
(***************************************************************************)
\* let period = 2.0 * PI / params.omega_d
Period(p) == Div(Mul(AsF64(2), PI), p.omega_d)

\* traj.iter().position(|(t, _)| *t >= t_sample); 0 stands for None
Position(tr, ts) ==
    LET hits == {j \in 1..Len(tr) : tr[j].t >= ts}
    IN  IF hits = {} THEN 0
        ELSE CHOOSE j \in hits : \A m \in hits : j <= m

Start_n_early == transient_periods
Start_n == transient_periods + 1

End_n_late == transient_periods + sample_periods + 1
End_n == transient_periods + sample_periods

\* the state taken directly, without the wrap
DirectRaw(s) == <<s.theta, s.omega>>
\* samples.push((wrap_angle(s.theta), s.omega))
Direct(s) == <<wrap_angle(s.theta), s.omega>>

\* the interpolation without the wrap of the result
InterpRaw(p1, p2, t_sample) ==
    LET dt == p2.t - p1.t
        alpha == Div(t_sample - p1.t, dt)
        dtheta == RemEuclid((p2.theta - p1.theta) + PI, Mul(AsF64(2), PI)) - PI
    IN  <<p1.theta + Mul(alpha, dtheta),
          p1.omega + Mul(alpha, p2.omega - p1.omega)>>
\* the else branch: linear interpolation, angular difference wrapped
Interp(p1, p2, t_sample) ==
    LET dt == p2.t - p1.t
        alpha == Div(t_sample - p1.t, dt)
        dtheta == RemEuclid((p2.theta - p1.theta) + PI, Mul(AsF64(2), PI)) - PI
        theta_interp == p1.theta + Mul(alpha, dtheta)
        omega_interp == p1.omega + Mul(alpha, p2.omega - p1.omega)
    IN  <<wrap_angle(theta_interp), omega_interp>>

\* the body of `if let Some(i)`; i is the sequence index (Rust's i + 1)
SampleAt(tr, i, t_sample) ==
    IF i = 1 THEN Direct(tr[i])
    ELSE IF tr[i].t - tr[i - 1].t <= 0 THEN Direct(tr[i])
    ELSE Interp(tr[i - 1], tr[i], t_sample)

\* solve returns into poincare_via_solve, which calls the sampler
SolveReturn ==
    /\ pc = "solve"
    /\ ~SolveLoopCond
    /\ pc' = "sample"
    /\ n' = Start_n
    /\ samples' = <<>>
    /\ log' = <<>>
    /\ UNCHANGED <<params, initial_theta, initial_omega, transient_periods,
                   sample_periods, state, t, step, traj, nP, samplesP, arg, ret>>

\* one iteration of `for n in start_n..=end_n`, the break included
SampleIter ==
    /\ pc = "sample"
    /\ n <= End_n
    /\ LET t_sample == Mul(AsF64(n), Period(params))
           i == Position(traj, t_sample)
       IN  IF i # 0
           THEN /\ samples' = Append(samples, SampleAt(traj, i, t_sample))
                /\ log' = Append(log, [n |-> n, t |-> t_sample, i |-> i])
                /\ n' = n + 1
                /\ pc' = pc
           ELSE /\ pc' = "sampled"
                /\ UNCHANGED <<samples, log, n>>
    /\ UNCHANGED <<params, initial_theta, initial_omega, transient_periods,
                   sample_periods, state, t, step, traj, nP, samplesP, arg, ret>>

\* the range is exhausted
SampleReturn ==
    /\ pc = "sample"
    /\ n > End_n
    /\ pc' = "sampled"
    /\ UNCHANGED <<params, initial_theta, initial_omega, transient_periods,
                   sample_periods, state, t, step, traj, n, samples, log, nP,
                   samplesP, arg, ret>>

(***************************************************************************)
(* poincare (the function write_poincare_csv calls)                        *)
(***************************************************************************)
\* the interpolation of poincare without the wrap of the result
PInterpRaw(p1, p2, target_time) ==
    LET frac == Div(target_time - p1.t, p2.t - p1.t)
        theta_diff == RemEuclid((p2.theta - p1.theta) + PI, Mul(AsF64(2), PI)) - PI
    IN  <<p1.theta + Mul(frac, theta_diff),
          p1.omega + Mul(frac, p2.omega - p1.omega)>>
PInterp(p1, p2, target_time) ==
    LET frac == Div(target_time - p1.t, p2.t - p1.t)
        theta_diff == RemEuclid((p2.theta - p1.theta) + PI, Mul(AsF64(2), PI)) - PI
        theta_interp == p1.theta + Mul(frac, theta_diff)
        omega_interp == p1.omega + Mul(frac, p2.omega - p1.omega)
    IN  <<wrap_angle(theta_interp), omega_interp>>

\* poincare is entered with the same arguments; its own call of solve
\* returns the trajectory solve returned before (solve is a function of
\* its arguments), so traj is read again rather than recomputed.
PoincareCall ==
    /\ pc = "sampled"
    /\ pc' = "poincare"
    /\ nP' = transient_periods + 1
    /\ samplesP' = <<>>
    /\ UNCHANGED <<params, initial_theta, initial_omega, transient_periods,
                   sample_periods, state, t, step, traj, n, samples, log, arg, ret>>

\* one iteration of `for n in (transient_periods + 1)..=(...)`
PoincareIter ==
    /\ pc = "poincare"
    /\ nP <= transient_periods + sample_periods
    /\ LET target_time == Mul(AsF64(nP), Period(params))
           idx == Position(traj, target_time)
       IN  samplesP' = IF idx # 0 /\ idx > 1
                       THEN Append(samplesP, PInterp(traj[idx - 1], traj[idx], target_time))
                       ELSE samplesP
    /\ nP' = nP + 1
    /\ UNCHANGED <<pc, params, initial_theta, initial_omega, transient_periods,
                   sample_periods, state, t, step, traj, n, samples, log, arg, ret>>

PoincareReturn ==
    /\ pc = "poincare"
    /\ nP > transient_periods + sample_periods
    /\ pc' = "done"
    /\ UNCHANGED <<params, initial_theta, initial_omega, transient_periods,
                   sample_periods, state, t, step, traj, n, samples, log, nP,
                   samplesP, arg, ret>>

(***************************************************************************)
(* wrap_angle called on theta and on theta + 2*pi*k                        *)
(***************************************************************************)
WrapCall ==
    /\ pc = "wrap"
    /\ ret' = [a |-> wrap_angle(arg.theta),
               b |-> wrap_angle(arg.theta + Mul(Mul(AsF64(2), PI), AsF64(arg.k)))]
    /\ pc' = "wrapped"
    /\ UNCHANGED <<params, initial_theta, initial_omega, transient_periods,
                   sample_periods, state, t, step, traj, n, samples, log, nP,
                   samplesP, arg>>

(***************************************************************************)
(* Inputs.                                                                 *)
(***************************************************************************)
\* PendulumParams::new() and the values main sets
DefaultParams ==
    [g |-> Real(98, 10), l |-> Real(98, 10), q |-> Real(1, 2),
     f_d |-> Real(12, 10), omega_d |-> Real(6, 1),
     dt |-> Real(3, 8), t_end |-> Real(2, 1)]

ParamSets ==
    [g : {Real(98, 10)}, l : {Real(1, 1), Real(98, 10)},
     q : {0, Real(1, 2)}, f_d : {0, Real(12, 10)},
     omega_d : {Real(6, 1), Real(12, 1)},
     dt : {Real(3, 8), Real(3, 4)},
     t_end : {0, Real(1, 2), Real(2, 1), Real(5, 2)}]

InitialThetas == {Real(1, 1), Real(4, 1)}
InitialOmegas == {0, Real(8, 1)}

\* hand-made trajectories for the sampler: any times (also equal or
\* decreasing ones), angles inside and outside the canonical branch
TimeGrid == {0, Real(1, 2), Real(1, 1), Real(3, 2)}
ThetaGrid == {-(PI + Real(1, 1)), -Real(1, 1), PI, PI + Real(2, 1)}
OmegaGrid == {-Real(1, 1), Real(2, 1)}
Points == [t : TimeGrid, theta : ThetaGrid, omega : OmegaGrid]
Trajectories == UNION {[1..len -> Points] : len \in 0..MaxLen}
SamplerOmegaDs == {Mul(AsF64(2), PI), Mul(AsF64(4), PI)}

NoState == [theta |-> 0, omega |-> 0]
NoArg == [theta |-> 0, k |-> 0]
NoRet == [a |-> 0, b |-> 0]

\* poincare_via_solve and poincare on the same arguments
Init ==
    /\ pc = "start"
    /\ params \in ParamSets
    /\ initial_theta \in InitialThetas
    /\ initial_omega \in InitialOmegas
    /\ transient_periods \in 0..MaxTransient
    /\ sample_periods \in 0..MaxSample
    /\ state = NoState /\ t = 0 /\ step = 0 /\ traj = <<>>
    /\ n = 0 /\ samples = <<>> /\ log = <<>>
    /\ nP = 0 /\ samplesP = <<>>
    /\ arg = NoArg /\ ret = NoRet

Next ==
    \/ SolveBegin
    \/ SolveStep
    \/ SolveReturn
    \/ SampleIter
    \/ SampleReturn
    \/ PoincareCall
    \/ PoincareIter
    \/ PoincareReturn

Spec == Init /\ [][Next]_vars

\* sample_poincare_from_trajectory called on any trajectory
InitSample ==
    /\ pc = "sample"
    /\ params \in [g : {DefaultParams.g}, l : {DefaultParams.l},
                   q : {DefaultParams.q}, f_d : {DefaultParams.f_d},
                   omega_d : SamplerOmegaDs,
                   dt : {DefaultParams.dt}, t_end : {DefaultParams.t_end}]
    /\ traj \in Trajectories
    /\ transient_periods \in 0..MaxTransient
    /\ sample_periods \in 0..MaxSample
    /\ n = Start_n
    /\ samples = <<>> /\ log = <<>>
    /\ initial_theta = 0 /\ initial_omega = 0
    /\ state = NoState /\ t = 0 /\ step = 0
    /\ nP = 0 /\ samplesP = <<>>
    /\ arg = NoArg /\ ret = NoRet

NextSample ==
    \/ SampleIter
    \/ SampleReturn

SpecSample == InitSample /\ [][NextSample]_vars

\* wrap_angle called on any angle of three turns around zero
InitWrap ==
    /\ pc = "wrap"
    /\ arg \in [theta : (-3 * PI)..(3 * PI), k : (-MaxK)..MaxK]
    /\ ret = NoRet
    /\ params = DefaultParams
    /\ initial_theta = 0 /\ initial_omega = 0
    /\ transient_periods = 0 /\ sample_periods = 0
    /\ state = NoState /\ t = 0 /\ step = 0 /\ traj = <<>>
    /\ n = 0 /\ samples = <<>> /\ log = <<>>
    /\ nP = 0 /\ samplesP = <<>>

NextWrap == WrapCall

SpecWrap == InitWrap /\ [][NextWrap]_vars

(***************************************************************************)
(* Properties.                                                             *)
(***************************************************************************)
Returned == pc \in {"sample", "sampled", "poincare", "done"}   \* solve has returned
InitialPoint == Point(0, [theta |-> initial_theta, omega |-> initial_omega])

\* the first sequence index whose time is >= ts, stated without Position
FirstAtOrAfter(tr, i, ts) ==
    /\ i \in 1..Len(tr)
    /\ tr[i].t >= ts
    /\ \A j \in 1..(i - 1) : tr[j].t < ts

\* C1: while solve runs the trajectory holds one entry per iteration done
\* plus the initial entry, and the trajectory solve returns has exactly
\* floor(t_end / dt) + 1 entries (dt > 0, t_end >= 0).
C1_TrajectoryLength ==
    /\ pc = "solve" => Len(traj) = step + 1
    /\ Returned => Len(traj) = (params.t_end \div params.dt) + 1

C1_Witness ==
    /\ pc = "done"
    /\ Len(traj) >= 4
    /\ params.t_end % params.dt # 0

\* C8: the trajectory of solve starts with (0, initial_state), each later
\* time is the previous time plus dt, and the times are strictly increasing.
C8_TimesByRepeatedAddition ==
    pc # "start" =>
        /\ Len(traj) >= 1
        /\ traj[1] = InitialPoint
        /\ \A j \in 2..Len(traj) :
               /\ traj[j].t = traj[j - 1].t + params.dt
               /\ traj[j].t > traj[j - 1].t

C8_Witness ==
    /\ pc = "done"
    /\ Len(traj) >= 3
    /\ traj[3].t = 2 * params.dt

\* C10: poincare returns the same samples, in the same order, as
\* poincare_via_solve (dt > 0, omega_d > 0, t_end >= 0).
C10_PoincareAgrees == pc = "done" => samplesP = samples

C10_Witness ==
    /\ pc = "done"
    /\ Len(samplesP) >= 2
    /\ samplesP[1] # samplesP[2]
    /\ \E k \in 1..Len(log) :
           /\ log[k].i >= 2
           /\ traj[log[k].i].t > log[k].t
           /\ traj[log[k].i].theta # traj[log[k].i - 1].theta

\* C2 as stated: every emitted theta lies in (-pi, pi].
C2_ThetaInHalfOpenAbove ==
    \A k \in 1..Len(samples) : -PI < samples[k][1] /\ samples[k][1] <= PI

\* C2, amended: every emitted theta lies in [-pi, pi], whichever branch
\* emitted it; -pi itself is emitted.
C2_ThetaInClosedInterval ==
    \A k \in 1..Len(samples) : -PI <= samples[k][1] /\ samples[k][1] <= PI

C2_Witness ==
    /\ pc = "sampled"
    /\ Len(samples) = 2
    /\ log[1].i = 1
    /\ log[2].i = 2 /\ traj[2].t > log[2].t
    /\ \E k \in 1..2 : samples[k][1] = -PI

\* C3: the sampler returns at most S samples, and fewer than S only when
\* some target time n*period, T+1 <= n <= T+S, exceeds the last trajectory
\* time (an empty trajectory has no time at all and is too short for any
\* window); the short result is an ordinary return.
C3_AtMostSAndShortOnlyIfTooShort ==
    /\ Len(samples) <= sample_periods
    /\ (pc = "sampled" /\ Len(samples) < sample_periods) =>
           \/ traj = <<>>
           \/ \E m \in (transient_periods + 1)..(transient_periods + sample_periods) :
                  m * Period(params) > traj[Len(traj)].t

C3_Witness ==
    /\ pc = "sampled"
    /\ Len(samples) >= 1
    /\ Len(samples) < sample_periods
    /\ traj # <<>>

\* C4: the k-th sample is taken at target time (T + k) * period: the
\* targets are consecutive multiples of the period starting at T + 1,
\* strictly increasing, and the samples are in that order (omega_d > 0).
C4_ConsecutiveTargets ==
    /\ Len(log) = Len(samples)
    /\ \A k \in 1..Len(log) :
           /\ log[k].n = transient_periods + k
           /\ log[k].t = (transient_periods + k) * Period(params)
           /\ k > 1 => log[k - 1].t < log[k].t

C4_Witness ==
    /\ pc = "sampled"
    /\ transient_periods >= 1
    /\ Len(samples) = 2

\* C5 as stated: when a target time equals the timestamp of the located
\* trajectory point, the sample is that point: theta[i] and omega[i].
C5_ExactHitIsThePoint ==
    \A k \in 1..Len(samples) : \A i \in 1..Len(traj) :
        (FirstAtOrAfter(traj, i, log[k].t) /\ traj[i].t = log[k].t) =>
            samples[k] = <<traj[i].theta, traj[i].omega>>

\* C5, amended: when a target time equals the timestamp time[i] of the
\* first point at or after it (the only point with that timestamp when the
\* times strictly increase), the sample's omega is omega[i] and its theta
\* is wrap_angle(theta[i]), which is theta[i] itself only for theta[i] in
\* [-pi, pi).
C5_ExactHitIsTheWrappedPoint ==
    \A k \in 1..Len(samples) : \A i \in 1..Len(traj) :
        (FirstAtOrAfter(traj, i, log[k].t) /\ traj[i].t = log[k].t) =>
            /\ samples[k] = <<wrap_angle(traj[i].theta), traj[i].omega>>
            /\ (-PI <= traj[i].theta /\ traj[i].theta < PI) =>
                   samples[k][1] = traj[i].theta

C5_Witness ==
    /\ pc = "sampled"
    /\ \E k \in 1..Len(samples) :
           /\ log[k].i >= 2
           /\ traj[log[k].i].t = log[k].t
           /\ traj[log[k].i].theta # traj[log[k].i - 1].theta
           /\ traj[log[k].i].omega # traj[log[k].i - 1].omega
           /\ traj[log[k].i].theta >= PI

DegenerateBranchNeverTaken ==
    \A k \in 1..Len(log) :
        log[k].i >= 2 => traj[log[k].i].t - traj[log[k].i - 1].t > 0

\* C6 as stated: wrap_angle(theta) = theta for every theta in (-pi, pi].
C6_NoOpOnHalfOpenAbove ==
    (pc = "wrapped" /\ -PI < arg.theta /\ arg.theta <= PI) => ret.a = arg.theta

\* C6, amended: wrap_angle(theta) = theta for every theta in [-pi, pi),
\* and wrap_angle(pi) = -pi.
C6_NoOpOnHalfOpenBelow ==
    /\ (pc = "wrapped" /\ -PI <= arg.theta /\ arg.theta < PI) => ret.a = arg.theta
    /\ (pc = "wrapped" /\ arg.theta = PI) => ret.a = -PI

C6_Witness ==
    /\ pc = "wrapped"
    /\ arg.theta = -PI
    /\ ret.a = -PI

\* C7: wrap_angle(theta + 2*pi*k) = wrap_angle(theta) for every angle
\* theta and every integer k, negative ones included.
C7_Periodic == pc = "wrapped" => ret.b = ret.a

C7_Witness ==
    /\ pc = "wrapped"
    /\ arg.k < 0
    /\ arg.theta > PI
    /\ arg.theta + 2 * PI * arg.k < -PI
    /\ ret.a # arg.theta

====
